---- MODULE Spec2Model ----
(***************************************************************************)
(* Model of the Rust benchmark runner scripts/bench_rust 2.rs:             *)
(*   - bench(f, reps): the measurement loop and its mean / std reduction,  *)
(*   - main(): the per-TestCase loop generate -> write -> compile -> run   *)
(*     -> bench -> println of one NDJSON record.                           *)
(* External processes (python3 -m pcs, rustc, ./target/rust_bench), the    *)
(* file system and the output stream are the environment: every outcome    *)
(* they can produce is a nondeterministic choice of the action using them. *)
(* f64 values are modelled exactly (rationals, surds, NaN, Inf); the       *)
(* durations used are small integers, far from the rounding range of f64.  *)
(***************************************************************************)
EXTENDS Integers, Sequences, FiniteSets, TLC

VARIABLES
    commit, timestamp, os, cpu, n,   \* metadata read once at the top of main
    idx,          \* position of the for loop in test_cases (1-based)
    pc,           \* position of main inside the loop body
    output,       \* `output` of the generator subprocess of this iteration
    srcFile,      \* content of generated/rust_bench.rs
    artifact,     \* content of target/rust_bench
    out,          \* lines printed to standard output, as JSON objects
    panicMsg,     \* message of the panic that ended main, "" if none
    trace,        \* history: the subprocesses / writes main performed
    workCalls,    \* history: invocations of the placeholder workload
    bReps, bF,    \* bench alone: argument reps, elapsed time of each f() call
    bTimes,       \* bench alone: the vector `times` after the loop
    bResult,      \* bench alone: the returned pair (mean, std)
    bpc           \* bench alone: "ready" before the call, "returned" after

mainVars == <<commit, timestamp, os, cpu, n, idx, pc, output, srcFile,
               artifact, out, panicMsg, trace, workCalls>>
benchVars == <<bReps, bF, bTimes, bResult, bpc>>
vars == <<commit, timestamp, os, cpu, n, idx, pc, output, srcFile,
               artifact, out, panicMsg, trace, workCalls,
               bReps, bF, bTimes, bResult, bpc>>

(***************************************************************************)
(* Bounds of the bench-alone specification.                                *)
(***************************************************************************)
MaxReps == 3
MaxSample == 2

(***************************************************************************)
(* f64 arithmetic, exact.                                                  *)
(***************************************************************************)
NaN == [nan |-> TRUE]
Inf == [inf |-> TRUE]

RECURSIVE GCD(_, _)
GCD(a, b) == IF b = 0 THEN a ELSE GCD(b, a % b)

Abs(a) == IF a < 0 THEN 0 - a ELSE a

\* the rational p/q (q # 0) in lowest terms with a positive denominator
Rat(p, q) ==
    LET g == GCD(Abs(p), Abs(q))
        s == IF q < 0 THEN 0 - 1 ELSE 1
    IN  [num |-> (s * p) \div g, den |-> (s * q) \div g]

FromInt(i) == [num |-> i, den |-> 1]

IsFinite(a) == "num" \in DOMAIN a

NonFinite(a, b) == IF a = NaN \/ b = NaN THEN NaN ELSE Inf

F64Add(a, b) ==
    IF IsFinite(a) /\ IsFinite(b)
    THEN Rat(a.num * b.den + b.num * a.den, a.den * b.den)
    ELSE NonFinite(a, b)

F64Sub(a, b) ==
    IF IsFinite(a) /\ IsFinite(b)
    THEN Rat(a.num * b.den - b.num * a.den, a.den * b.den)
    ELSE NaN

F64Mul(a, b) ==
    IF IsFinite(a) /\ IsFinite(b)
    THEN Rat(a.num * b.num, a.den * b.den)
    ELSE NonFinite(a, b)

\* IEEE division: 0/0 is NaN, x/0 is infinite
F64Div(a, b) ==
    IF IsFinite(a) /\ IsFinite(b)
    THEN IF b.num = 0
         THEN (IF a.num = 0 THEN NaN ELSE Inf)
         ELSE Rat(a.num * b.den, a.den * b.num)
    ELSE NaN

\* floor of the square root of a natural number
Isqrt(m) == CHOOSE k \in 0..m : k * k <= m /\ (k + 1) * (k + 1) > m

IsSquare(m) == Isqrt(m) * Isqrt(m) = m

\* f64::sqrt on a non-negative value: exact when rational, else the surd
F64Sqrt(a) ==
    IF ~IsFinite(a) THEN a
    ELSE IF a.num < 0 THEN NaN
    ELSE IF IsSquare(a.num) /\ IsSquare(a.den)
         THEN [num |-> Isqrt(a.num), den |-> Isqrt(a.den)]
         ELSE [radicand |-> a]

\* `x as i64` for a finite x >= 0 or NaN: truncation; NaN becomes 0.
\* (bench never yields an infinity: it divides by Len(times) only, and when
\* that is 0 the dividend is an empty sum, so the quotient is NaN.)
AsI64(a) ==
    IF a = NaN THEN 0
    ELSE IF "radicand" \in DOMAIN a
         THEN CHOOSE k \in 0..a.radicand.num :
                  /\ k * k * a.radicand.den <= a.radicand.num
                  /\ (k + 1) * (k + 1) * a.radicand.den > a.radicand.num
         ELSE a.num \div a.den

\* times.iter().sum::<f64>()
RECURSIVE SumF64(_)
SumF64(s) == IF s = <<>> THEN FromInt(0) ELSE F64Add(s[1], SumF64(Tail(s)))

(***************************************************************************)
(* bench(f, reps).  F[i] is the elapsed time of the i-th invocation of f.  *)
(***************************************************************************)
\* a loop that treats the first call as warm-up and does not record it
RECURSIVE BenchLoopWarmup(_, _, _, _)
BenchLoopWarmup(F, i, reps, times) ==
    IF i >= reps THEN times
    ELSE BenchLoopWarmup(F, i + 1, reps,
             IF i = 0 THEN times ELSE Append(times, FromInt(F[i + 1])))

\* the loop `for _ in 0..reps`: one f() and one push per iteration
RECURSIVE BenchLoop(_, _, _, _)
BenchLoop(F, i, reps, times) ==
    IF i >= reps THEN times
    ELSE BenchLoop(F, i + 1, reps, Append(times, FromInt(F[i + 1])))

mean(times) == F64Div(SumF64(times), FromInt(Len(times)))

\* the sample variance: division by len - 1
varianceSample(times) ==
    LET m  == F64Div(SumF64(times), FromInt(Len(times)))
        sq == [k \in 1..Len(times) |->
                  F64Mul(F64Sub(times[k], m), F64Sub(times[k], m))]
    IN  F64Div(SumF64(sq), FromInt(Len(times) - 1))

variance(times) ==
    LET m  == mean(times)
        sq == [k \in 1..Len(times) |->
                  F64Mul(F64Sub(times[k], m), F64Sub(times[k], m))]
    IN  F64Div(SumF64(sq), FromInt(Len(times)))

std(times) == F64Sqrt(variance(times))

bench(F, reps) ==
    LET times == BenchLoop(F, 0, reps, <<>>)
    IN  <<mean(times), std(times)>>

(***************************************************************************)
(* main(): configuration and environment.                                  *)
(***************************************************************************)
FixedReps == 10

test_cases ==
    << [test |-> "sum_even_squares", mode |-> "loops",    parallel |-> FALSE],
       [test |-> "sum_even_squares", mode |-> "parallel", parallel |-> TRUE] >>

\* values the environment can give the metadata
Commits == {"local", "3f2a9c1"}
Timestamps == {"2024-05-01T12:00:00Z", "2024-05-01T12:00:07Z"}
OsNames == {"linux"}
CpuInfos == {"unknown", "AMD EPYC 7763"}
BenchNs == {1000000, 1000}

\* what the external processes can print
GenStdouts == {"fn program() -> i64 { /* A */ }", "fn program() -> i64 { /* B */ }"}
GenStderrs == {"", "pcs: error: unsupported expression"}
IoErrors == {"No such file or directory (os error 2)"}
RunStdouts == {"", "332833500"}
RunStderrs == {"", "thread 'main' panicked"}

\* elapsed nanoseconds of the successive calls of the placeholder workload:
\* steady and fast, steady and slow, or with a slow first call
WorkTimings ==
    { [i \in 1..FixedReps |-> 2],
      [i \in 1..FixedReps |-> 5],
      [i \in 1..FixedReps |-> IF i = 1 THEN 12 ELSE 2] }

Absent == [present |-> FALSE]
\* an executable built from source text `text`; `iter` = 0 for a file left
\* by an earlier run, else the loop iteration whose rustc call wrote it
Binary(text, iter) == [present |-> TRUE, text |-> text, iter |-> iter]
StaleBinary == Binary("left by an earlier run", 0)
StaleSource == [text |-> "left by an earlier run", iter |-> 0]

NoOutput == [success |-> FALSE, stdout |-> "", stderr |-> ""]

\* one entry of the history: loop iteration, stage, how it ended, the text
\* it left as diagnostic, and what was at target/rust_bench at that moment
Event(stage, result, diag) ==
    [tc |-> idx, stage |-> stage, result |-> result, diag |-> diag,
     art |-> artifact]

\* the history entry of one call of bench: F[i] is the elapsed time of the
\* i-th call of the workload
MeasureEvent(F) ==
    [tc |-> idx, stage |-> "measure", result |-> "done", diag |-> "",
     art |-> artifact, timings |-> F]

\* base fields with n taken from the default instead of the parsed value
BaseRecordDefaultN(tc) ==
    [commit |-> commit, timestamp |-> timestamp, os |-> os, cpu |-> cpu,
     backend |-> "rust", test |-> tc.test, mode |-> tc.mode,
     parallel |-> tc.parallel, n |-> 1000000]

\* the fields every record carries (lines 65-73, 91-99, 130-138, ...)
BaseRecord(tc) ==
    [commit |-> commit, timestamp |-> timestamp, os |-> os, cpu |-> cpu,
     backend |-> "rust", test |-> tc.test, mode |-> tc.mode,
     parallel |-> tc.parallel, n |-> n]

ErrorRecord(tc, msg) ==
    [f \in DOMAIN BaseRecord(tc) \cup {"error"} |->
        IF f = "error" THEN msg ELSE BaseRecord(tc)[f]]

\* a success record whose mean is read from what is at target/rust_bench
\* rather than from the bench of the placeholder workload
SuccessRecordFromArtifact(tc, stats) ==
    [commit |-> commit, timestamp |-> timestamp, os |-> os, cpu |-> cpu,
     backend |-> "rust", test |-> tc.test, mode |-> tc.mode,
     parallel |-> tc.parallel, n |-> n,
     mean_ns |-> Len(artifact.text), std_ns |-> AsI64(stats[2])]

SuccessRecord(tc, stats) ==
    [commit |-> commit, timestamp |-> timestamp, os |-> os, cpu |-> cpu,
     backend |-> "rust", test |-> tc.test, mode |-> tc.mode,
     parallel |-> tc.parallel, n |-> n,
     mean_ns |-> AsI64(stats[1]), std_ns |-> AsI64(stats[2])]

\* the end of a loop body (or `continue`): the for loop takes the next case
NextCase ==
    /\ idx' = idx + 1
    /\ pc' = IF idx + 1 > Len(test_cases) THEN "done" ELSE "generate"

\* println!("{}", rec) followed by the end of the loop body; println!
\* panics when the write to standard output fails (stdoutOk = FALSE)
Println(rec, stdoutOk) ==
    IF stdoutOk
    THEN /\ out' = Append(out, rec)
         /\ panicMsg' = panicMsg
         /\ NextCase
    ELSE /\ out' = out
         /\ panicMsg' = "failed printing to stdout"
         /\ pc' = "panicked"
         /\ idx' = idx

Panic(msg) ==
    /\ panicMsg' = msg
    /\ pc' = "panicked"
    /\ UNCHANGED <<idx, out>>

MainInit ==
    /\ commit \in Commits
    /\ timestamp \in Timestamps
    /\ os \in OsNames
    /\ cpu \in CpuInfos
    /\ n \in BenchNs
    /\ idx = 1
    /\ pc = "generate"
    /\ output = NoOutput
    /\ srcFile \in {StaleSource}
    /\ artifact \in {Absent, StaleBinary}
    /\ out = <<>>
    /\ panicMsg = ""
    /\ trace = <<>>
    /\ workCalls = 0

BenchIdle ==
    /\ bReps = 0
    /\ bF = <<>>
    /\ bTimes = <<>>
    /\ bResult = <<>>
    /\ bpc = "idle"

Init == MainInit /\ BenchIdle

\* lines 50-78: run the generator; .expect panics if it cannot be started
GenerateSpawnFails ==
    /\ pc = "generate"
    /\ trace' = Append(trace, Event("generate", "spawn_err", ""))
    /\ Panic("Failed to generate Rust code")
    /\ UNCHANGED <<commit, timestamp, os, cpu, n, output, srcFile, artifact,
                   workCalls>>
    /\ UNCHANGED benchVars

GenerateExitsNonZero ==
    /\ pc = "generate"
    /\ \E err \in GenStderrs, stdoutOk \in BOOLEAN :
          /\ output' = [success |-> FALSE, stdout |-> "", stderr |-> err]
          /\ Println(ErrorRecord(test_cases[idx], err), stdoutOk)
          /\ trace' = Append(trace, Event("generate", "nonzero", err))
    /\ UNCHANGED <<commit, timestamp, os, cpu, n, srcFile, artifact, workCalls>>
    /\ UNCHANGED benchVars

GenerateSucceeds ==
    /\ pc = "generate"
    /\ \E src \in GenStdouts :
          output' = [success |-> TRUE, stdout |-> src, stderr |-> ""]
    /\ pc' = "write"
    /\ trace' = Append(trace, Event("generate", "zero", ""))
    /\ UNCHANGED <<commit, timestamp, os, cpu, n, idx, srcFile, artifact, out,
                   panicMsg, workCalls>>
    /\ UNCHANGED benchVars

\* lines 81-82: std::fs::write(...).expect(...)
WriteStaging ==
    /\ pc = "write"
    /\ \E ok \in BOOLEAN :
          IF ok
          THEN /\ srcFile' = [text |-> output.stdout, iter |-> idx]
               /\ pc' = "compile"
               /\ trace' = Append(trace, Event("write", "ok", ""))
               /\ UNCHANGED <<idx, out, panicMsg>>
          ELSE /\ srcFile' = srcFile
               /\ trace' = Append(trace, Event("write", "io_err", ""))
               /\ Panic("Failed to write generated Rust code")
    /\ UNCHANGED <<commit, timestamp, os, cpu, n, output, artifact, workCalls>>
    /\ UNCHANGED benchVars

\* lines 85-104: rustc could not be started: compile_result is Err(e)
CompileSpawnFails ==
    /\ pc = "compile"
    /\ \E e \in IoErrors, stdoutOk \in BOOLEAN :
          /\ Println(ErrorRecord(test_cases[idx],
                                  "Compilation failed: " \o e), stdoutOk)
          /\ trace' = Append(trace, Event("compile", "spawn_err", e))
    /\ UNCHANGED <<commit, timestamp, os, cpu, n, output, srcFile, artifact,
                   workCalls>>
    /\ UNCHANGED benchVars

\* lines 85-89, 107: rustc ran (compile_result is Ok) and exited non-zero.
\* Line 89 matches Err only; the exit status is never read, so main goes on
\* to line 107.  A failing rustc leaves target/rust_bench as it was.
CompileExitsNonZero ==
    /\ pc = "compile"
    /\ \E err \in {"error: aborting due to previous error"} :
          trace' = Append(trace, Event("compile", "nonzero", err))
    /\ pc' = "run"
    /\ UNCHANGED <<commit, timestamp, os, cpu, n, idx, output, srcFile,
                   artifact, out, panicMsg, workCalls>>
    /\ UNCHANGED benchVars

\* lines 85-89, 107: rustc exited zero and wrote target/rust_bench
CompileSucceeds ==
    /\ pc = "compile"
    /\ artifact' = Binary(srcFile.text, srcFile.iter)
    /\ trace' = Append(trace, Event("compile", "zero", ""))
    /\ pc' = "run"
    /\ UNCHANGED <<commit, timestamp, os, cpu, n, idx, output, srcFile, out,
                   panicMsg, workCalls>>
    /\ UNCHANGED benchVars

\* lines 107-108, 159-173: ./target/rust_bench could not be started
RunSpawnFails ==
    /\ pc = "run"
    /\ \E stdoutOk \in BOOLEAN :
          Println(ErrorRecord(test_cases[idx], "Failed to run benchmark"),
                  stdoutOk)
    /\ trace' = Append(trace, Event("execute", "spawn_err", ""))
    /\ UNCHANGED <<commit, timestamp, os, cpu, n, output, srcFile, artifact,
                   workCalls>>
    /\ UNCHANGED benchVars

\* an execute stage that reads only Ok / Err, not the exit status: after a
\* non-zero exit the workload is benched and a timing record printed
RunExitsNonZeroUnchecked ==
    /\ pc = "run"
    /\ artifact.present
    /\ \E err \in RunStderrs, F \in WorkTimings, stdoutOk \in BOOLEAN :
          /\ workCalls' = workCalls + Len(BenchLoop(F, 0, FixedReps, <<>>))
          /\ Println(SuccessRecord(test_cases[idx], bench(F, FixedReps)),
                     stdoutOk)
          /\ trace' = trace \o << Event("execute", "nonzero", err),
                                  MeasureEvent(F) >>
    /\ UNCHANGED <<commit, timestamp, os, cpu, n, output, srcFile, artifact>>
    /\ UNCHANGED benchVars

\* lines 110-111, 144-158: the artifact ran and exited non-zero
RunExitsNonZero ==
    /\ pc = "run"
    /\ artifact.present
    /\ \E err \in RunStderrs, stdoutOk \in BOOLEAN :
          /\ Println(ErrorRecord(test_cases[idx], err), stdoutOk)
          /\ trace' = Append(trace, Event("execute", "nonzero", err))
    /\ UNCHANGED <<commit, timestamp, os, cpu, n, output, srcFile, artifact,
                   workCalls>>
    /\ UNCHANGED benchVars

\* lines 110-143: the artifact exited zero: bench the placeholder workload
\* FixedReps times and print the record with mean_ns and std_ns
RunSucceeds ==
    /\ pc = "run"
    /\ artifact.present
    /\ \E stdoutText \in RunStdouts, F \in WorkTimings,
          stdoutOk \in BOOLEAN :
          /\ workCalls' = workCalls + Len(BenchLoop(F, 0, FixedReps, <<>>))
          /\ Println(SuccessRecord(test_cases[idx], bench(F, FixedReps)),
                     stdoutOk)
          /\ trace' = trace \o << Event("execute", "zero", stdoutText),
                                  MeasureEvent(F) >>
    /\ UNCHANGED <<commit, timestamp, os, cpu, n, output, srcFile, artifact>>
    /\ UNCHANGED benchVars

Next ==
    \/ GenerateSpawnFails
    \/ GenerateExitsNonZero
    \/ GenerateSucceeds
    \/ WriteStaging
    \/ CompileSpawnFails
    \/ CompileExitsNonZero
    \/ CompileSucceeds
    \/ RunSpawnFails
    \/ RunExitsNonZero
    \/ RunSucceeds

Spec == Init /\ [][Next]_vars

(***************************************************************************)
(* bench alone: the arguments are drawn in the initial state.              *)
(***************************************************************************)
MainIdle ==
    /\ commit = "local"
    /\ timestamp = "2024-05-01T12:00:00Z"
    /\ os = "linux"
    /\ cpu = "unknown"
    /\ n = 1000000
    /\ idx = 1
    /\ pc = "idle"
    /\ output = NoOutput
    /\ srcFile = StaleSource
    /\ artifact = Absent
    /\ out = <<>>
    /\ panicMsg = ""
    /\ trace = <<>>
    /\ workCalls = 0

BenchInit ==
    /\ MainIdle
    /\ bReps \in 0..MaxReps
    /\ bF \in [1..MaxReps -> 0..MaxSample]
    /\ bTimes = <<>>
    /\ bResult = <<>>
    /\ bpc = "ready"

\* lines 10-30: one call bench(f, bReps)
BenchCall ==
    /\ bpc = "ready"
    /\ bTimes' = BenchLoop(bF, 0, bReps, <<>>)
    /\ bResult' = bench(bF, bReps)
    /\ bpc' = "returned"
    /\ UNCHANGED <<bReps, bF>>
    /\ UNCHANGED mainVars

BenchNext == BenchCall

BenchSpec == BenchInit /\ [][BenchNext]_vars

(***************************************************************************)
(* Vocabulary of the properties.                                           *)
(***************************************************************************)
StdoutFailed == pc = "panicked" /\ panicMsg = "failed printing to stdout"

RunEnded == pc \in {"done", "panicked"}

HasTiming(r) == "mean_ns" \in DOMAIN r /\ "std_ns" \in DOMAIN r
HasError(r) == "error" \in DOMAIN r

\* r is a well-formed ResultRecord: timing or error, not both, not neither
WellFormed(r) ==
    /\ HasTiming(r) \/ HasError(r)
    /\ ~(HasError(r) /\ ("mean_ns" \in DOMAIN r \/ "std_ns" \in DOMAIN r))

Identifies(r, tc) ==
    r.test = tc.test /\ r.mode = tc.mode /\ r.parallel = tc.parallel

RecordsOf(i) == {k \in 1..Len(out) : Identifies(out[k], test_cases[i])}

\* the processing of TestCase i has ended, and not by a failed println
Processed(i) ==
    \/ i < idx
    \/ i = idx /\ pc = "panicked" /\ ~StdoutFailed

EventsOf(i) == {k \in 1..Len(trace) : trace[k].tc = i}

Failed(e) == e.result \in {"spawn_err", "nonzero", "io_err"}

\* C1: every TestCase whose processing ended (other than by a failed write
\* to the output stream) has exactly one record in the output, and every
\* record has either the timing fields or an error field, never both and
\* never neither.
C1_OneRecordPerTestCase ==
    /\ \A i \in 1..Len(test_cases) :
          Processed(i) => Cardinality(RecordsOf(i)) = 1
    /\ \A k \in 1..Len(out) : WellFormed(out[k])

\* C2: the run ends before the end of the TestCase loop only when a write
\* to the output stream failed; no failure of a stage of a TestCase ends it.
C2_OnlyOutputFailureAborts ==
    pc = "panicked" => panicMsg = "failed printing to stdout"

\* C3: when the compiler cannot be started or exits non-zero for a
\* TestCase, the execute stage is not run for it, nothing is measured for
\* it, and its record is an error record.
C3_CompileFailureEndsTestCase ==
    \A k \in 1..Len(trace) :
        (trace[k].stage = "compile" /\ Failed(trace[k])) =>
            /\ \A j \in EventsOf(trace[k].tc) :
                  trace[j].stage \notin {"execute", "measure"}
            /\ \A j \in RecordsOf(trace[k].tc) : HasError(out[j])

StageRank(st) ==
    CASE st = "generate" -> 1
      [] st = "write"    -> 2
      [] st = "compile"  -> 3
      [] st = "execute"  -> 4
      [] st = "measure"  -> 5

\* C4: the stages of one TestCase run in the order generate, (write,)
\* compile, execute, a failing stage is the last stage run for its
\* TestCase, and after a generator that exits non-zero there is no write,
\* no compile and no execute, the record's error being the generator's
\* error stream.
C4_FirstFailureShortCircuits ==
    \A k \in 1..Len(trace) :
        /\ \A j \in 1..Len(trace) :
              (j < k /\ trace[j].tc = trace[k].tc) =>
                  /\ StageRank(trace[j].stage) < StageRank(trace[k].stage)
                  /\ ~Failed(trace[j])
        /\ (trace[k].stage = "generate" /\ trace[k].result = "nonzero") =>
              \A j \in RecordsOf(trace[k].tc) :
                  HasError(out[j]) /\ out[j].error = trace[k].diag

\* the part of C4 about a generator that exits non-zero
GeneratorFailureShortCircuits ==
    \A k \in 1..Len(trace) :
        (trace[k].stage = "generate" /\ trace[k].result = "nonzero") =>
            /\ EventsOf(trace[k].tc) = {k}
            /\ \A j \in RecordsOf(trace[k].tc) :
                  HasError(out[j]) /\ out[j].error = trace[k].diag

\* C5: the i-th record printed is about the i-th TestCase, and when the run
\* has ended (other than by a failed write to the output stream) there are
\* exactly as many records as TestCases.
C5_OneRecordEachInOrder ==
    /\ Len(out) <= Len(test_cases)
    /\ \A i \in 1..Len(out) : Identifies(out[i], test_cases[i])
    /\ (RunEnded /\ ~StdoutFailed) => Len(out) = Len(test_cases)

\* the part of C5 about the order of the records
RecordsInConfigurationOrder ==
    /\ Len(out) <= Len(test_cases)
    /\ \A i \in 1..Len(out) : Identifies(out[i], test_cases[i])

\* C9: when the generator could not be started at any of its invocations
\* (the tool does not exist), the run ends at the end of the TestCase loop
\* with exactly two records, both with a non-empty error and no timing.
C9_MissingGeneratorTwoErrorRecords ==
    ( /\ RunEnded /\ ~StdoutFailed
      /\ \A k \in 1..Len(trace) :
            trace[k].stage = "generate" => trace[k].result = "spawn_err" )
    => /\ pc = "done"
       /\ Len(out) = 2
       /\ \A k \in 1..Len(out) :
             HasError(out[k]) /\ out[k].error # "" /\ ~HasTiming(out[k])

\* C10: whenever the artifact at target/rust_bench is run for a TestCase,
\* it is the one rustc built in that same iteration from the source
\* generated for that TestCase.
C10_ArtifactOwnedByCurrentTestCase ==
    \A k \in 1..Len(trace) :
        (trace[k].stage = "execute" /\ trace[k].result # "spawn_err") =>
            /\ trace[k].art.present
            /\ trace[k].art.iter = trace[k].tc
            /\ \E j \in 1..(k - 1) :
                  /\ trace[j].tc = trace[k].tc
                  /\ trace[j].stage = "compile"
                  /\ trace[j].result = "zero"

(***************************************************************************)
(* Properties of bench alone.                                              *)
(***************************************************************************)
RECURSIVE IntSum(_, _)
IntSum(F, r) == IF r = 0 THEN 0 ELSE F[r] + IntSum(F, r - 1)

\* sum over the first r samples of (r * x - total)^2
RECURSIVE IntSumSqDev(_, _, _, _)
IntSumSqDev(F, k, r, total) ==
    IF k = 0 THEN 0
    ELSE (r * F[k] - total) * (r * F[k] - total)
         + IntSumSqDev(F, k - 1, r, total)

Squared(a) == IF "radicand" \in DOMAIN a THEN a.radicand ELSE F64Mul(a, a)

\* C6: bench with reps = 0 fails with InvalidRepetitionCount: it calls f
\* zero times and returns no (mean, std) pair.
C6_ZeroRepsRejected ==
    (bpc # "ready" /\ bReps = 0) =>
        /\ bpc = "InvalidRepetitionCount"
        /\ bTimes = <<>>
        /\ bResult = <<>>

\* C7: for reps >= 1, bench calls f exactly reps times, times holds the
\* elapsed time of every call in call order, and the returned mean times
\* reps is the sum of those elapsed times.
C7_MeanOfAllSamples ==
    (bpc = "returned" /\ bReps >= 1) =>
        /\ Len(bTimes) = bReps
        /\ \A i \in 1..bReps : bTimes[i] = FromInt(bF[i])
        /\ IsFinite(bResult[1])
        /\ F64Mul(bResult[1], FromInt(bReps)) = FromInt(IntSum(bF, bReps))

C7_Witness ==
    /\ bpc = "returned"
    /\ bReps = MaxReps
    /\ bF[1] # bF[2]
    /\ bResult[1] = Rat(IntSum(bF, bReps), bReps)

\* C8: for reps >= 1 the square of the returned std is the sum of the
\* squared deviations from the mean divided by reps (not reps - 1), and
\* the std is exactly 0 when all samples are equal.
C8_PopulationStd ==
    (bpc = "returned" /\ bReps >= 1) =>
        /\ F64Mul(Squared(bResult[2]), FromInt(bReps * bReps * bReps))
             = FromInt(IntSumSqDev(bF, bReps, bReps, IntSum(bF, bReps)))
        /\ (\A i \in 1..bReps : bF[i] = bF[1]) => bResult[2] = FromInt(0)

C8_Witness ==
    /\ bpc = "returned"
    /\ bReps >= 2
    /\ \E i \in 1..bReps : bF[i] # bF[1]
    /\ bResult[2] # FromInt(0)

C8_WitnessEqualSamples ==
    /\ bpc = "returned"
    /\ bReps >= 2
    /\ \A i \in 1..bReps : bF[i] = bF[1]
    /\ bF[1] > 0
    /\ bResult[2] = FromInt(0)

(***************************************************************************)
(* Properties of the execute stage, the error tag, the repetition count,   *)
(* the placeholder workload and the metadata.                              *)
(***************************************************************************)
\* C11 as stated: when the artifact cannot be started or exits non-zero,
\* nothing is measured for the TestCase and its record is an error record
\* whose error field is the artifact's captured error stream (nothing is
\* captured from a process that did not start).
C11_ExecuteFailureReportsStderr ==
    \A k \in 1..Len(trace) :
        (trace[k].stage = "execute" /\ Failed(trace[k])) =>
            /\ \A j \in EventsOf(trace[k].tc) : trace[j].stage # "measure"
            /\ \A j \in RecordsOf(trace[k].tc) :
                  /\ HasError(out[j]) /\ ~HasTiming(out[j])
                  /\ out[j].error = trace[k].diag

\* C11 amended: when the artifact cannot be started or exits non-zero,
\* nothing is measured for the TestCase and, unless the write of the record
\* fails, exactly one record is printed for it, an error record; its error
\* field is the artifact's captured error stream after a non-zero exit and
\* the fixed text "Failed to run benchmark" when it could not be started.
C11_ExecuteFailureReported ==
    \A k \in 1..Len(trace) :
        (trace[k].stage = "execute" /\ Failed(trace[k])) =>
            /\ \A j \in EventsOf(trace[k].tc) : trace[j].stage # "measure"
            /\ Processed(trace[k].tc) =>
                  Cardinality(RecordsOf(trace[k].tc)) = 1
            /\ \A j \in RecordsOf(trace[k].tc) :
                  /\ HasError(out[j]) /\ ~HasTiming(out[j])
                  /\ out[j].error = IF trace[k].result = "nonzero"
                                    THEN trace[k].diag
                                    ELSE "Failed to run benchmark"

C11_Witness ==
    /\ pc = "done"
    /\ Len(out) = 2
    /\ \E k \in EventsOf(1) :
          trace[k].stage = "execute" /\ trace[k].result = "spawn_err"
    /\ \E k \in EventsOf(2) :
          /\ trace[k].stage = "execute" /\ trace[k].result = "nonzero"
          /\ trace[k].diag # ""
          /\ out[2].error = trace[k].diag
    /\ out[1].error = "Failed to run benchmark"

CompilationTag == "Compilation failed: "

Tagged(r) ==
    /\ HasError(r)
    /\ Len(r.error) >= Len(CompilationTag)
    /\ SubSeq(r.error, 1, Len(CompilationTag)) = CompilationTag

\* the first failing stage of TestCase i is the compile stage
CompileFailedFirst(i) ==
    \E k \in EventsOf(i) :
        /\ trace[k].stage = "compile" /\ Failed(trace[k])
        /\ \A j \in EventsOf(i) : j < k => ~Failed(trace[j])

\* C12: the record of a TestCase carries the compilation tag exactly when
\* the first failing stage of that TestCase was the compile stage.
C12_CompilationTagIffCompileFailed ==
    \A i \in 1..Len(test_cases) :
        \A j \in RecordsOf(i) : Tagged(out[j]) <=> CompileFailedFirst(i)

\* the half of C12 that the code keeps: a tagged record is the record of a
\* TestCase whose compiler could not be started
TaggedOnlyAfterCompileFailure ==
    \A i \in 1..Len(test_cases) :
        \A j \in RecordsOf(i) :
            Tagged(out[j]) =>
                \E k \in EventsOf(i) :
                    trace[k].stage = "compile" /\ trace[k].result = "spawn_err"

SuccessRecords == {j \in 1..Len(out) : HasTiming(out[j])}

\* C13: a record with timing fields belongs to a TestCase whose generate,
\* compile and execute stages all succeeded and whose workload was benched;
\* nothing is measured for a TestCase with an error record; and the
\* workload has been called 10 times per success record.
C13_TenCallsPerSuccessOnly ==
    /\ \A i \in 1..Len(test_cases) :
          \A j \in RecordsOf(i) :
              IF HasTiming(out[j])
              THEN /\ \A st \in {"generate", "compile", "execute"} :
                         \E k \in EventsOf(i) :
                             trace[k].stage = st /\ trace[k].result = "zero"
                   /\ \E k \in EventsOf(i) : trace[k].stage = "measure"
              ELSE \A k \in EventsOf(i) : trace[k].stage # "measure"
    /\ ~StdoutFailed => workCalls = 10 * Cardinality(SuccessRecords)

\* the part of C13 about the number of calls
TenCallsPerSuccessRecord ==
    /\ \A i \in 1..Len(test_cases) :
          \A j \in RecordsOf(i) :
              HasTiming(out[j]) <=>
                  \E k \in EventsOf(i) : trace[k].stage = "measure"
    /\ ~StdoutFailed => workCalls = 10 * Cardinality(SuccessRecords)

\* the timings of the bench of TestCase i, and the artifact run for it
TimingsOf(i) ==
    (CHOOSE e \in {trace[k] : k \in EventsOf(i)} : e.stage = "measure").timings

ExecutedOf(i) ==
    CHOOSE e \in {trace[k] : k \in EventsOf(i)} : e.stage = "execute"

C15_SameMetadataInEveryRecord ==
    /\ \A k \in 1..Len(out) :
          /\ out[k].commit = commit
          /\ out[k].timestamp = timestamp
          /\ out[k].os = os
          /\ out[k].cpu = cpu
          /\ out[k].n = n
          /\ out[k].backend = "rust"
    /\ \A i, j \in 1..Len(out) :
          \A f \in {"commit", "timestamp", "os", "cpu", "backend", "n"} :
              out[i][f] = out[j][f]

\* C15, the frame: no step of main changes what was read before the loop
C15_MetadataNeverChanges ==
    [][<<commit, timestamp, os, cpu, n>>' = <<commit, timestamp, os, cpu, n>>]_vars

C15_Witness ==
    /\ pc = "done"
    /\ Len(out) = 2
    /\ HasError(out[1])
    /\ HasTiming(out[2])
    /\ commit # "local"
    /\ n # 1000000
    /\ out[1].n = out[2].n
    /\ out[1].commit = out[2].commit

====
